---- MODULE Spec2Model ----
(***************************************************************************)
(* Model of the IMAP e-mail tool server (src/index.js): process start-up,  *)
(* the CallTool request handler with its ten operations, the drafts-folder *)
(* resolver and the message composer, run against a mail store, a message  *)
(* decoder and a mail transfer client that may fail at every call.         *)
(*                                                                         *)
(* JavaScript values: an optional value is <<>> (undefined) or <<v>>; an   *)
(* object is a function whose DOMAIN is its set of property names.         *)
(***************************************************************************)
EXTENDS Integers, Sequences, FiniteSets, TLC

VARIABLES
  procState,     \* "init", "running" or "exited": position of main()
  env,           \* process.env: IMAP_USER, IMAP_PASSWORD, IMAP_HOST, SMTP_HOST
  smtpHost,      \* SMTP_CONFIG.host
  boxes,         \* the folder tree the mail store reports (getBoxes)
  store,         \* mail store: mailbox name -> set of messages
  uidNext,       \* mail store: mailbox name -> next UID to assign
  sessions,      \* sequence of mailbox sessions created by imaps.connect
  pc,            \* per invocation: the await the handler is suspended at
  name,          \* per invocation: request.params.name
  args,          \* per invocation: request.params.arguments
  conn,          \* per invocation: `connection` (index into sessions, 0 = none)
  draftsFolder,  \* per invocation: `draftsFolder`
  found,         \* per invocation: `messages` returned by search
  searchCriteria, \* per invocation: `searchCriteria` passed to search (history)
  result,        \* per invocation: the ToolResult handed back to the host
  calls,         \* per invocation: collaborator calls made so far (history)
  failure,       \* per invocation: message of the failure it met (history)
  expunged,      \* per invocation: messages its closeBox(true) removed (history)
  appended       \* per invocation: messages its append stored (history)

vars == <<procState, env, smtpHost, boxes, store, uidNext, sessions, pc, name,
          args, conn, draftsFolder, found, searchCriteria, result, calls,
          failure, expunged, appended>>

(***************************************************************************)
(* JavaScript values                                                       *)
(***************************************************************************)
Undefined == [jsUndefined |-> TRUE]
Null == [jsNull |-> TRUE]

\* Truthiness of an object reference (undefined and null are falsy).
TruthyObj(v) == v # Undefined /\ v # Null

\* Truthiness of an optional string: undefined and '' are falsy.
TruthyStr(o) == o # <<>> /\ o[1] # ""

\* Truthiness of an optional number: undefined and 0 are falsy.
TruthyNum(o) == o # <<>> /\ o[1] # 0

\* Template-literal rendering `${x}` of an optional string.
Interp(o) == IF o = <<>> THEN "undefined" ELSE o[1]

\* obj?.[key]
Get(obj, key) ==
  IF ~TruthyObj(obj) THEN Undefined
  ELSE IF key \in DOMAIN obj THEN obj[key] ELSE Undefined

(***************************************************************************)
(* Folder trees                                                            *)
(***************************************************************************)
\* A box as node-imap reports it; children is null for a leaf.
Box(children) == [attribs |-> <<>>, delimiter |-> ".", children |-> children]

LeafBox == Box(Null)

\* Candidate names of the drafts folder, in the order they are tested.
draftNames ==
  << "Drafts", "INBOX.Drafts", "[Gmail]/Drafts", "[Google Mail]/Drafts",
     "Draft", "INBOX/Drafts" >>

\* name.split('.'): the pieces of s between dots, scanning from i with the
\* current piece starting at start.
RECURSIVE SplitFrom(_, _, _)
SplitFrom(s, i, start) ==
  IF i > Len(s) THEN << SubSeq(s, start, Len(s)) >>
  ELSE IF SubSeq(s, i, i) = "."
       THEN << SubSeq(s, start, i - 1) >> \o SplitFrom(s, i + 1, i + 1)
       ELSE SplitFrom(s, i + 1, start)

SplitDot(n) == SplitFrom(n, 1, 1)

\* parts.reduce((acc, part) => acc?.[part], start)
RECURSIVE Reduce(_, _)
Reduce(parts, acc) ==
  IF parts = <<>> THEN acc ELSE Reduce(Tail(parts), Get(acc, Head(parts)))

\* The test of one candidate in the loop of findDraftsFolder.
CandidateMatches(bx, n) ==
  TruthyObj(Get(bx, n)) \/ TruthyObj(Reduce(SplitDot(n), bx))

\* Index of the first candidate at or after k that matches, 0 if none.
RECURSIVE FirstMatch(_, _)
FirstMatch(bx, k) ==
  IF k > Len(draftNames) THEN 0
  ELSE IF CandidateMatches(bx, draftNames[k]) THEN k
  ELSE FirstMatch(bx, k + 1)

\* boxes.INBOX && boxes.INBOX.children && boxes.INBOX.children.Drafts
InboxHasDraftsChild(bx) ==
  /\ TruthyObj(Get(bx, "INBOX"))
  /\ TruthyObj(Get(bx, "INBOX").children)
  /\ TruthyObj(Get(Get(bx, "INBOX").children, "Drafts"))

FindDraftsFolderNoInboxCheck(bx) ==
  IF FirstMatch(bx, 1) # 0 THEN draftNames[FirstMatch(bx, 1)] ELSE "Drafts"

\* findDraftsFolder, after getBoxes has returned bx.
FindDraftsFolder(bx) ==
  IF FirstMatch(bx, 1) # 0 THEN draftNames[FirstMatch(bx, 1)]
  ELSE IF InboxHasDraftsChild(bx) THEN "INBOX.Drafts"
  ELSE "Drafts"

\* Folder trees: top-level keys from TopNames; INBOX and [Gmail] may have
\* children.
TopNames ==
  { "INBOX", "Drafts", "INBOX.Drafts", "[Gmail]/Drafts", "[Google Mail]/Drafts",
    "Draft", "INBOX/Drafts", "[Gmail]", "Sent" }

ChildNames == {"Drafts", "Sent"}

ChildTrees == {[c \in cs |-> LeafBox] : cs \in (SUBSET ChildNames) \ {{}}}

ParentNames == {"INBOX", "[Gmail]"}

AllTrees ==
  UNION { { [k \in ks |-> IF k \in ParentNames THEN Box(ch[k]) ELSE LeafBox] :
              ch \in [ParentNames -> ChildTrees \cup {Null}] } :
          ks \in SUBSET TopNames }

\* The trees the mail store of the running server may have: a top-level
\* Drafts folder, and no drafts folder at all.
TreeChoices ==
  { [k \in {"INBOX", "Drafts"} |-> LeafBox],
    [k \in {"INBOX"} |-> LeafBox] }

\* Order in which Object.entries enumerates folder names.
KeyOrder ==
  << "INBOX", "Drafts", "INBOX.Drafts", "[Gmail]", "[Gmail]/Drafts",
     "[Google Mail]/Drafts", "Draft", "INBOX/Drafts", "Sent" >>

\* extractFolders(obj, prefix), visiting the keys of KeyOrder from k on.
RECURSIVE ExtractFrom(_, _, _)
ExtractFrom(obj, prefix, k) ==
  IF k > Len(KeyOrder) THEN <<>>
  ELSE IF KeyOrder[k] \notin DOMAIN obj THEN ExtractFrom(obj, prefix, k + 1)
  ELSE LET key == KeyOrder[k]
           fullPath == IF prefix # "" THEN prefix \o "." \o key ELSE key
           below == IF TruthyObj(obj[key].children)
                    THEN ExtractFrom(obj[key].children, fullPath, 1)
                    ELSE <<>>
       IN << fullPath >> \o below \o ExtractFrom(obj, prefix, k + 1)

extractFolders(bx) == ExtractFrom(bx, "", 1)

Range(s) == {s[k] : k \in DOMAIN s}

\* The mailboxes that exist in a store with folder tree bx.
Mailboxes(bx) == Range(extractFolders(bx))

(***************************************************************************)
(* Requests                                                                *)
(***************************************************************************)
\* The requests of a run, named in their order of arrival.
InvocationOrder == << "r1", "r2" >>

Invocations == Range(InvocationOrder)

ArrivedBefore(i) ==
  {InvocationOrder[k] : k \in {x \in 1..Len(InvocationOrder) :
                                 \E y \in (x + 1)..Len(InvocationOrder) :
                                   InvocationOrder[y] = i}}

ToolNames ==
  { "list_folders", "list_emails", "get_email", "search_emails", "list_drafts",
    "get_draft", "create_draft", "update_draft", "send_email", "delete_email" }

UnknownNames == {"bogus"}

\* request.params.arguments; present = FALSE is an absent argument bag.
EmptyArgs ==
  [ present |-> TRUE, folder |-> <<>>, limit |-> <<>>, unseen_only |-> <<>>,
    since_date |-> <<>>, uid |-> <<>>, subject |-> <<>>, from |-> <<>>,
    body |-> <<>>, to |-> <<>>, cc |-> <<>>, bcc |-> <<>>, html |-> <<>> ]

NoArgs == [EmptyArgs EXCEPT !.present = FALSE]

MaxLimit == 1

Limits == {<<>>} \cup {<<l>> : l \in 0..MaxLimit}

\* UIDs of messages the store starts with, and a UID no message has.
StoredUids == {1, 2}

AbsentUids == {9}

ComposeVariants ==
  { [cc |-> <<>>, bcc |-> <<>>, body |-> <<"text">>, html |-> <<>>],
    [cc |-> <<"c@x">>, bcc |-> <<"b@x">>, body |-> <<>>, html |-> <<"<p>">>],
    [cc |-> <<"c@x">>, bcc |-> <<>>, body |-> <<"text">>, html |-> <<"">>] }

Composed(v) ==
  [EmptyArgs EXCEPT !.to = <<"bob@x">>, !.subject = <<"hi">>, !.cc = v.cc,
                    !.bcc = v.bcc, !.body = v.body, !.html = v.html]

\* The argument bags tried for each tool name.
ArgsFor(n) ==
  CASE n = "list_folders" -> {NoArgs, EmptyArgs}
    [] n = "list_emails" ->
         {NoArgs, [EmptyArgs EXCEPT !.folder = <<"Missing">>]}
         \cup {[EmptyArgs EXCEPT !.limit = l] : l \in Limits}
         \cup {[EmptyArgs EXCEPT !.unseen_only = u, !.since_date = d] :
                 u \in {<<>>, <<TRUE>>}, d \in {<<>>, <<"2024-06-01">>}}
    [] n = "get_email" ->
         {NoArgs, [EmptyArgs EXCEPT !.folder = <<"Missing">>, !.uid = <<1>>]}
         \cup {[EmptyArgs EXCEPT !.uid = <<u>>] : u \in {1} \cup AbsentUids}
    [] n = "search_emails" ->
         {NoArgs, [EmptyArgs EXCEPT !.folder = <<"Missing">>]}
         \cup {[EmptyArgs EXCEPT !.limit = <<MaxLimit>>]}
         \cup {[EmptyArgs EXCEPT !.subject = s, !.from = f] :
                 s \in {<<>>, <<"hello">>}, f \in {<<>>, <<"alice@x">>}}
    [] n = "list_drafts" -> {NoArgs} \cup {[EmptyArgs EXCEPT !.limit = l] : l \in Limits}
    [] n = "get_draft" ->
         {NoArgs} \cup {[EmptyArgs EXCEPT !.uid = <<u>>] : u \in {1} \cup AbsentUids}
    [] n = "create_draft" -> {NoArgs} \cup {Composed(v) : v \in ComposeVariants}
    [] n = "update_draft" ->
         {NoArgs}
         \cup {[Composed(v) EXCEPT !.uid = <<u>>] :
                 v \in ComposeVariants, u \in StoredUids}
         \cup {[Composed(v) EXCEPT !.uid = <<u>>] :
                 v \in {w \in ComposeVariants : w.html = <<>>},
                 u \in AbsentUids}
    [] n = "send_email" -> {NoArgs} \cup {Composed(v) : v \in ComposeVariants}
    [] n = "delete_email" ->
         {NoArgs, [EmptyArgs EXCEPT !.folder = <<"Missing">>, !.uid = <<1>>]}
         \cup {[EmptyArgs EXCEPT !.uid = <<u>>] : u \in {1} \cup AbsentUids}
         \cup {[EmptyArgs EXCEPT !.folder = <<"Drafts">>, !.uid = <<2>>]}
    [] OTHER -> {NoArgs, EmptyArgs}

(***************************************************************************)
(* Messages, the composer and the result envelope                          *)
(***************************************************************************)
\* Date.now() and new Date().toUTCString() at the time of composing.
Now == [ms |-> "1700000000000", utc |-> "Tue, 14 Nov 2023 22:13:20 GMT"]

ComposeNoClosing(a, user) ==
  LET boundary == "----=_Part_" \o Now.ms
      head ==
        << "From: " \o Interp(user), "To: " \o Interp(a.to) >>
        \o (IF TruthyStr(a.cc) THEN << "Cc: " \o a.cc[1] >> ELSE <<>>)
        \o (IF TruthyStr(a.bcc) THEN << "Bcc: " \o a.bcc[1] >> ELSE <<>>)
        \o << "Subject: " \o Interp(a.subject), "Date: " \o Now.utc,
              "MIME-Version: 1.0" >>
      plain == IF TruthyStr(a.body) THEN a.body[1] ELSE ""
  IN IF TruthyStr(a.html)
     THEN head
          \o << "Content-Type: multipart/alternative; boundary=\"" \o boundary \o "\"",
                "", "--" \o boundary, "Content-Type: text/plain; charset=utf-8", "",
                plain, "--" \o boundary, "Content-Type: text/html; charset=utf-8", "",
                a.html[1] >>
     ELSE head \o << "Content-Type: text/plain; charset=utf-8", "", plain >>

\* The composed message, as its lines; every line is terminated by CRLF.
Compose(a, user) ==
  LET boundary == "----=_Part_" \o Now.ms
      head ==
        << "From: " \o Interp(user), "To: " \o Interp(a.to) >>
        \o (IF TruthyStr(a.cc) THEN << "Cc: " \o a.cc[1] >> ELSE <<>>)
        \o (IF TruthyStr(a.bcc) THEN << "Bcc: " \o a.bcc[1] >> ELSE <<>>)
        \o << "Subject: " \o Interp(a.subject), "Date: " \o Now.utc,
              "MIME-Version: 1.0" >>
      plain == IF TruthyStr(a.body) THEN a.body[1] ELSE ""
  IN IF TruthyStr(a.html)
     THEN head
          \o << "Content-Type: multipart/alternative; boundary=\"" \o boundary \o "\"",
                "", "--" \o boundary, "Content-Type: text/plain; charset=utf-8", "",
                plain, "--" \o boundary, "Content-Type: text/html; charset=utf-8", "",
                a.html[1], "--" \o boundary \o "--" >>
     ELSE head \o << "Content-Type: text/plain; charset=utf-8", "", plain >>

\* Index of the blank line that ends the header block (Len + 1 if none).
HeaderEnd(doc) ==
  IF \E k \in 1..Len(doc) : doc[k] = ""
  THEN CHOOSE k \in 1..Len(doc) : doc[k] = "" /\ \A j \in 1..(k - 1) : doc[j] # ""
  ELSE Len(doc) + 1

\* The value of header `key` (such as "To: ") of a document, if it has one.
HeaderOf(doc, key) ==
  LET ks == {k \in 1..(HeaderEnd(doc) - 1) :
               Len(doc[k]) >= Len(key) /\ SubSeq(doc[k], 1, Len(key)) = key}
  IN IF ks = {} THEN <<>>
     ELSE LET k == CHOOSE x \in ks : \A y \in ks : x <= y
          IN << SubSeq(doc[k], Len(key) + 1, Len(doc[k])) >>

\* A stored message.
Msg(uid, flags, date, doc) == [uid |-> uid, flags |-> flags, date |-> date, doc |-> doc]

Doc(from, to, subject, body) ==
  << "From: " \o from, "To: " \o to, "Subject: " \o subject, "MIME-Version: 1.0",
     "Content-Type: text/plain; charset=utf-8", "", body >>

\* Dates known to the store, oldest first.
Dates == << "2024-01-01", "2024-06-01" >>

DateRank(d) == CHOOSE k \in 1..Len(Dates) : Dates[k] = d

InitialInbox ==
  { Msg(1, {"\\Seen"}, "2024-01-01", Doc("alice@x", "me@x", "hello", "one")),
    Msg(2, {}, "2024-06-01", Doc("carol@x", "me@x", "bye", "two")) }

InitialDrafts ==
  { Msg(1, {"\\Draft"}, "2024-01-01", Doc("me@x", "bob@x", "draft one", "d1")),
    Msg(2, {"\\Draft"}, "2024-06-01", Doc("me@x", "dan@x", "draft two", "d2")) }

InitialStore(bx) ==
  [f \in Mailboxes(bx) |->
     IF f = "INBOX" THEN InitialInbox
     ELSE IF f \in {"Drafts", "INBOX.Drafts"} THEN InitialDrafts
     ELSE {}]

\* One search criterion against one message.
Matches(m, c) ==
  CASE c[1] = "ALL" -> TRUE
    [] c[1] = "UNSEEN" -> "\\Seen" \notin m.flags
    [] c[1] = "SINCE" -> DateRank(m.date) >= DateRank(c[2])
    [] c[1] = "UID" -> m.uid = c[2]
    [] c[1] = "SUBJECT" -> HeaderOf(m.doc, "Subject: ") = << c[2] >>
    [] c[1] = "FROM" -> HeaderOf(m.doc, "From: ") = << c[2] >>
    [] c[1] = "BODY" -> m.doc[Len(m.doc)] = c[2]

\* A set of messages in ascending UID order.
RECURSIVE Ascending(_)
Ascending(ms) ==
  IF ms = {} THEN <<>>
  ELSE LET m == CHOOSE x \in ms : \A y \in ms : x.uid <= y.uid
       IN << m >> \o Ascending(ms \ {m})

\* connection.search(criteria, fetchOptions) on the messages of the open box.
SearchBox(ms, criteria) ==
  Ascending({m \in ms : \A k \in 1..Len(criteria) : Matches(m, criteria[k])})

(***************************************************************************)
(* Listing                                                                 *)
(***************************************************************************)
DefaultLimit == 20

\* args.limit || 20
EffectiveLimit(limitArg) == IF TruthyNum(limitArg) THEN limitArg[1] ELSE DefaultLimit

\* Array.prototype.slice(start)
Slice(seq, start) ==
  LET len == Len(seq)
      k == IF start < 0 THEN (IF len + start > 0 THEN len + start ELSE 0)
           ELSE (IF start < len THEN start ELSE len)
  IN SubSeq(seq, k + 1, len)

\* Array.prototype.reverse()
Reverse(seq) == [k \in 1..Len(seq) |-> seq[Len(seq) + 1 - k]]

\* messages.slice(-limit).reverse()
LastLimit(messages, limitArg) == Reverse(Slice(messages, -EffectiveLimit(limitArg)))

\* The entry of one message in a listing.
Summary(n, m) ==
  LET date == HeaderOf(m.doc, "Date: ")
      from == HeaderOf(m.doc, "From: ")
      to == HeaderOf(m.doc, "To: ")
      subject == HeaderOf(m.doc, "Subject: ")
  IN CASE n = "list_emails" ->
            [uid |-> m.uid, date |-> date, from |-> from, to |-> to,
             subject |-> subject, flags |-> m.flags]
       [] n = "search_emails" ->
            [uid |-> m.uid, date |-> date, from |-> from, to |-> to, subject |-> subject]
       [] OTHER -> [uid |-> m.uid, date |-> date, to |-> to, subject |-> subject]

ListResults(n, messages, limitArg) ==
  LET kept == LastLimit(messages, limitArg)
  IN [k \in 1..Len(kept) |-> Summary(n, kept[k])]

ListEmailsCriteriaCombined(a) ==
  LET c == (IF a.unseen_only # <<>> /\ a.unseen_only[1] THEN << <<"UNSEEN">> >> ELSE <<>>)
           \o (IF TruthyStr(a.since_date) THEN << <<"SINCE", a.since_date[1]>> >> ELSE <<>>)
  IN IF Len(c) = 0 THEN << <<"ALL">> >> ELSE c

\* searchCriteria of list_emails: ['ALL'], replaced by ['UNSEEN'] if
\* args.unseen_only, then replaced by [['SINCE', since_date]] if args.since_date.
ListEmailsCriteria(a) ==
  LET all == << <<"ALL">> >>
      afterUnseen == IF a.unseen_only # <<>> /\ a.unseen_only[1]
                     THEN << <<"UNSEEN">> >> ELSE all
  IN IF TruthyStr(a.since_date) THEN << <<"SINCE", a.since_date[1]>> >> ELSE afterUnseen

\* The search criteria each operation passes to connection.search.
SearchCriteria(n, a) ==
  CASE n = "list_emails" -> ListEmailsCriteria(a)
    [] n = "search_emails" ->
         LET c == (IF TruthyStr(a.subject) THEN << <<"SUBJECT", a.subject[1]>> >> ELSE <<>>)
                  \o (IF TruthyStr(a.from) THEN << <<"FROM", a.from[1]>> >> ELSE <<>>)
                  \o (IF TruthyStr(a.body) THEN << <<"BODY", a.body[1]>> >> ELSE <<>>)
         IN IF Len(c) = 0 THEN << <<"ALL">> >> ELSE c
    [] n = "list_drafts" -> << <<"ALL">> >>
    [] OTHER -> << <<"UID", a.uid[1]>> >>

\* simpleParser(rawBody), as far as the handlers read it.
Parsed(doc) ==
  [ from |-> HeaderOf(doc, "From: "), to |-> HeaderOf(doc, "To: "),
    cc |-> HeaderOf(doc, "Cc: "), bcc |-> HeaderOf(doc, "Bcc: "),
    subject |-> HeaderOf(doc, "Subject: "), date |-> HeaderOf(doc, "Date: "),
    text |-> doc[Len(doc)] ]

Detail(n, m) ==
  LET parsed == Parsed(m.doc)
  IN IF n = "get_email"
     THEN [uid |-> m.uid, from |-> parsed.from, to |-> parsed.to, cc |-> parsed.cc,
           subject |-> parsed.subject, date |-> parsed.date, text |-> parsed.text,
           attachments |-> <<>>]
     ELSE [uid |-> m.uid, to |-> parsed.to, cc |-> parsed.cc, bcc |-> parsed.bcc,
           subject |-> parsed.subject, date |-> parsed.date, text |-> parsed.text]

(***************************************************************************)
(* The result envelope and the exits of the handler                        *)
(***************************************************************************)
TextResult(t) == [content |-> << [type |-> "text", text |-> t] >>]

ErrorResult(t) == [content |-> << [type |-> "text", text |-> t] >>, isError |-> TRUE]

NoResult == [content |-> <<>>]

\* JSON.stringify(value, null, 2)
Json(v) == ToString(v)

\* `return result` inside the try block.
Return(res) == [pc |-> "returned", result |-> res]

TopLevelCatchRethrow(msg) == [pc |-> "threw", result |-> NoResult]

\* The catch block around the switch.
TopLevelCatch(msg) == [pc |-> "returned", result |-> ErrorResult("Error: " \o msg)]

TypeErrorMessage(field) ==
  "Cannot read properties of undefined (reading '" \o field \o "')"

FinallySkipped(ss, c) == ss

FinallyTwice(ss, c) == [ss EXCEPT ![c].ended = @ + 2]

\* finally { connection.end() }
Finally(ss, c) == [ss EXCEPT ![c].ended = @ + 1]

NotFoundAsError(n) ==
  Return(ErrorResult(IF n = "get_email" THEN "Email not found" ELSE "Draft not found"))

\* `if (messages.length === 0) return ...` of get_email and get_draft.
NotFound(n) ==
  Return(TextResult(IF n = "get_email" THEN "Email not found" ELSE "Draft not found"))

UnknownToolAsError(n) == Return(ErrorResult("Unknown tool: " \o n))

\* The default case of the switch.
UnknownTool(n) == Return(TextResult("Unknown tool: " \o n))

\* The first argument read before connectIMAP() is called, "" when none is.
ReadBeforeConnect(n) ==
  CASE n \in {"list_emails", "get_email", "search_emails", "delete_email"} -> "folder"
    [] n = "list_drafts" -> "limit"
    [] OTHER -> ""

\* args.folder || 'INBOX'
FolderArg(a) == IF TruthyStr(a.folder) THEN a.folder[1] ELSE "INBOX"

(***************************************************************************)
(* Start-up                                                                *)
(***************************************************************************)
EnvChoices ==
  [ IMAP_USER : {<<>>, <<"me@x">>}, IMAP_PASSWORD : {<<>>, <<"secret">>},
    IMAP_HOST : {<<>>, <<"imap.x">>}, SMTP_HOST : {<<>>, <<"smtp.x">>} ]

Init ==
  /\ procState = "init"
  /\ env \in EnvChoices
  /\ smtpHost = env.SMTP_HOST
  /\ boxes \in TreeChoices
  /\ store = InitialStore(boxes)
  /\ uidNext = [f \in Mailboxes(boxes) |-> 1 + Cardinality(StoredUids)]
  /\ sessions = <<>>
  /\ pc = [i \in Invocations |-> "idle"]
  /\ name = [i \in Invocations |-> ""]
  /\ args = [i \in Invocations |-> NoArgs]
  /\ conn = [i \in Invocations |-> 0]
  /\ draftsFolder = [i \in Invocations |-> ""]
  /\ found = [i \in Invocations |-> <<>>]
  /\ searchCriteria = [i \in Invocations |-> <<>>]
  /\ result = [i \in Invocations |-> NoResult]
  /\ calls = [i \in Invocations |-> <<>>]
  /\ failure = [i \in Invocations |-> <<>>]
  /\ expunged = [i \in Invocations |-> {}]
  /\ appended = [i \in Invocations |-> {}]

MissingEnvIgnored(e) == {}

\* The required variables that are missing (validateConfig).
MissingEnv(e) == {k \in {"IMAP_USER", "IMAP_PASSWORD", "IMAP_HOST"} : ~TruthyStr(e[k])}

\* main(): validateConfig(), then server.connect(transport).
Main ==
  /\ procState = "init"
  /\ IF MissingEnv(env) # {}
     THEN procState' = "exited" /\ UNCHANGED smtpHost
     ELSE /\ procState' = "running"
          /\ smtpHost' = IF ~TruthyStr(env.SMTP_HOST) THEN env.IMAP_HOST ELSE smtpHost
  /\ UNCHANGED searchCriteria
  /\ UNCHANGED <<env, boxes, store, uidNext, sessions, pc, name, args, conn,
                 draftsFolder, found, result, calls, failure, expunged, appended>>

(***************************************************************************)
(* The request handler                                                     *)
(***************************************************************************)
\* The handler leaves through `out`; made lists the collaborator calls of
\* this step and closing tells whether it leaves the try/finally of a session.
\* ss is the state of the sessions when the handler leaves.
ExitFrom(i, out, made, closing, ss) ==
  /\ pc' = [pc EXCEPT ![i] = out.pc]
  /\ result' = [result EXCEPT ![i] = out.result]
  /\ calls' = [calls EXCEPT ![i] = @ \o made \o (IF closing THEN <<"end">> ELSE <<>>)]
  /\ sessions' = IF closing THEN Finally(ss, conn[i]) ELSE ss

\* The handler returns a result from inside the try block.
Exit(i, out, made, closing) ==
  ExitFrom(i, out, made, closing, sessions) /\ UNCHANGED failure

ExitSelected(i, out, made, box) ==
  ExitFrom(i, out, made, TRUE, [sessions EXCEPT ![conn[i]].box = box])
  /\ UNCHANGED failure

\* A statement of the handler throws an error with message msg.
Throw(i, msg, made, closing) ==
  ExitFrom(i, TopLevelCatch(msg), made, closing, sessions)
  /\ failure' = [failure EXCEPT ![i] = <<msg>>]

ThrowSelected(i, msg, made, box) ==
  ExitFrom(i, TopLevelCatch(msg), made, TRUE, [sessions EXCEPT ![conn[i]].box = box])
  /\ failure' = [failure EXCEPT ![i] = <<msg>>]

\* The handler suspends at the next await.
Await(i, next, made) ==
  /\ pc' = [pc EXCEPT ![i] = next]
  /\ calls' = [calls EXCEPT ![i] = @ \o made]
  /\ UNCHANGED <<result, failure>>

\* A request arrives: the handler runs up to its first await.
Start(i) ==
  /\ procState = "running"
  /\ pc[i] = "idle"
  /\ \A j \in ArrivedBefore(i) : pc[j] # "idle"
  /\ \E n \in ToolNames \cup UnknownNames :
       \E a \in ArgsFor(n) :
         /\ name' = [name EXCEPT ![i] = n]
         /\ args' = [args EXCEPT ![i] = a]
         /\ CASE n \notin ToolNames -> Exit(i, UnknownTool(n), <<>>, FALSE)
              [] n = "send_email" ->
                   IF ~TruthyStr(smtpHost)
                   THEN Exit(i, Return(ErrorResult(
                               "Error: SMTP_HOST not configured. Cannot send emails.")),
                             <<>>, FALSE)
                   ELSE IF ~a.present
                   THEN Throw(i, TypeErrorMessage("to"), <<>>, FALSE)
                   ELSE Await(i, "sendMail", <<>>) /\ UNCHANGED sessions
              [] n \in ToolNames \ {"send_email"} ->
                   IF ReadBeforeConnect(n) # "" /\ ~a.present
                   THEN Throw(i, TypeErrorMessage(ReadBeforeConnect(n)), <<>>, FALSE)
                   ELSE IF ~TruthyStr(env.IMAP_PASSWORD)
                   THEN Throw(i, "IMAP_PASSWORD environment variable is not set",
                              <<>>, FALSE)
                   ELSE Await(i, "connect", <<>>) /\ UNCHANGED sessions
  /\ UNCHANGED searchCriteria
  /\ UNCHANGED <<procState, env, smtpHost, boxes, store, uidNext, conn,
                 draftsFolder, found, expunged, appended>>

SharedSession(ss, i) ==
  IF Len(ss) = 0 THEN Append(ss, [owner |-> i, box |-> <<>>, ended |-> 0]) ELSE ss

PooledSession(ss, i) ==
  IF Len(ss) > 0 /\ ss[Len(ss)].ended > 0 THEN ss
  ELSE Append(ss, [owner |-> i, box |-> <<>>, ended |-> 0])

\* The sessions after imaps.connect made a new one for invocation i; the new
\* session is the last.
NewSession(ss, i) == Append(ss, [owner |-> i, box |-> <<>>, ended |-> 0])

\* imaps.connect(IMAP_CONFIG) completes.
Connect(i) ==
  /\ pc[i] = "connect"
  /\ \E ok \in BOOLEAN :
       IF ok
       THEN /\ sessions' = NewSession(sessions, i)
            /\ conn' = [conn EXCEPT ![i] = Len(sessions')]
            /\ Await(i, IF name[i] \in {"list_emails", "get_email", "search_emails",
                                        "delete_email"}
                        THEN "openBox" ELSE "getBoxes", <<"connect">>)
       ELSE /\ Throw(i, "connect failed", <<"connect">>, FALSE)
            /\ UNCHANGED conn
  /\ UNCHANGED searchCriteria
  /\ UNCHANGED <<procState, env, smtpHost, boxes, store, uidNext, name, args,
                 draftsFolder, found, expunged, appended>>

\* connection.getBoxes() completes (list_folders, findDraftsFolder).
GetBoxes(i) ==
  /\ pc[i] = "getBoxes"
  /\ \E ok \in BOOLEAN :
       IF ~ok
       THEN Throw(i, "getBoxes failed", <<"getBoxes">>, TRUE)
            /\ UNCHANGED draftsFolder
       ELSE IF name[i] = "list_folders"
       THEN Exit(i, Return(TextResult(Json(extractFolders(boxes)))), <<"getBoxes">>, TRUE)
            /\ UNCHANGED draftsFolder
       ELSE /\ draftsFolder' = [draftsFolder EXCEPT ![i] = FindDraftsFolder(boxes)]
            /\ IF name[i] = "create_draft"
               THEN IF ~args[i].present
                    THEN Throw(i, TypeErrorMessage("to"), <<"getBoxes">>, TRUE)
                    ELSE Await(i, "append", <<"getBoxes">>) /\ UNCHANGED sessions
               ELSE Await(i, "openBox", <<"getBoxes">>) /\ UNCHANGED sessions
  /\ UNCHANGED searchCriteria
  /\ UNCHANGED <<procState, env, smtpHost, boxes, store, uidNext, name, args,
                 conn, found, expunged, appended>>

\* The folder an operation opens.
FolderToOpen(i) ==
  IF name[i] \in {"list_emails", "get_email", "search_emails", "delete_email"}
  THEN FolderArg(args[i]) ELSE draftsFolder[i]

Select(ss, c, box) == [ss EXCEPT ![c].box = box]

\* connection.openBox(folder) completes.
OpenBox(i) ==
  /\ pc[i] \in {"openBox", "reopenBox"}
  /\ \E ok \in BOOLEAN :
       LET folder == FolderToOpen(i) IN
       IF ~ok \/ folder \notin DOMAIN store
       THEN Throw(i, IF folder \notin DOMAIN store
                     THEN "Mailbox doesn't exist: " \o folder
                     ELSE "openBox failed",
                  <<"openBox">>, TRUE)
       ELSE IF name[i] \in {"get_draft", "update_draft"} /\ ~args[i].present
       THEN ThrowSelected(i, TypeErrorMessage("uid"), <<"openBox">>, <<folder>>)
       ELSE /\ sessions' = Select(sessions, conn[i], <<folder>>)
            /\ Await(i, CASE pc[i] = "reopenBox" -> "append"
                          [] name[i] \in {"update_draft", "delete_email"} -> "addFlags"
                          [] OTHER -> "search",
                     <<"openBox">>)
  /\ UNCHANGED searchCriteria
  /\ UNCHANGED <<procState, env, smtpHost, boxes, store, uidNext, name, args,
                 conn, draftsFolder, found, expunged, appended>>

\* The messages of the box a session has open.
Selected(i) == store[sessions[conn[i]].box[1]]

FetchedMarkSeen(st, box, messages) ==
  [st EXCEPT ![box] = {IF m \in Range(messages)
                       THEN [m EXCEPT !.flags = @ \cup {"\\Seen"}] ELSE m : m \in @}]

\* The store after the bodies named in fetchOptions were fetched for the
\* messages found: fetchOptions sets no markSeen, so no flag changes.
Fetched(st, box, messages) == st

\* connection.search(criteria, fetchOptions) completes.
Search(i) ==
  /\ pc[i] = "search"
  /\ searchCriteria' =
       [searchCriteria EXCEPT ![i] = << SearchCriteria(name[i], args[i]) >>]
  /\ \E ok \in BOOLEAN :
       LET messages == SearchBox(Selected(i), SearchCriteria(name[i], args[i])) IN
       IF ~ok
       THEN Throw(i, "search failed", <<"search">>, TRUE)
            /\ UNCHANGED <<found, store>>
       ELSE /\ found' = [found EXCEPT ![i] = messages]
            /\ store' = Fetched(store, sessions[conn[i]].box[1], messages)
            /\ IF name[i] \in {"list_emails", "search_emails"}
               THEN Exit(i, Return(TextResult(Json(
                            ListResults(name[i], messages, args[i].limit)))),
                         <<"search">>, TRUE)
               ELSE IF name[i] = "list_drafts"
               THEN Exit(i, Return(TextResult(Json(
                            [folder |-> draftsFolder[i],
                             drafts |-> ListResults(name[i], messages, args[i].limit)]))),
                         <<"search">>, TRUE)
               ELSE IF Len(messages) = 0
               THEN Exit(i, NotFound(name[i]), <<"search">>, TRUE)
               ELSE Await(i, "decode", <<"search">>) /\ UNCHANGED sessions
  /\ UNCHANGED <<procState, env, smtpHost, boxes, uidNext, name, args, conn,
                 draftsFolder, expunged, appended>>

\* simpleParser(rawBody) completes.
Decode(i) ==
  /\ pc[i] = "decode"
  /\ \E ok \in BOOLEAN :
       IF ok
       THEN Exit(i, Return(TextResult(Json(Detail(name[i], found[i][1])))),
                 <<"decode">>, TRUE)
       ELSE Throw(i, "decode failed", <<"decode">>, TRUE)
  /\ UNCHANGED searchCriteria
  /\ UNCHANGED <<procState, env, smtpHost, boxes, store, uidNext, name, args,
                 conn, draftsFolder, found, expunged, appended>>

AddFlagNone(st, box, uid, flag) == st

\* The store after the messages of box with the given UID got the flag.
AddFlag(st, box, uid, flag) ==
  [st EXCEPT ![box] = {IF m.uid = uid THEN [m EXCEPT !.flags = @ \cup {flag}] ELSE m :
                         m \in @}]

\* connection.addFlags(args.uid, ['\\Deleted']) completes.
AddFlags(i) ==
  /\ pc[i] = "addFlags"
  /\ \E ok \in BOOLEAN :
       IF ok
       THEN /\ store' = AddFlag(store, sessions[conn[i]].box[1], args[i].uid[1],
                                "\\Deleted")
            /\ Await(i, "closeBox", <<"addFlags">>)
            /\ UNCHANGED sessions
       ELSE /\ Throw(i, "addFlags failed", <<"addFlags">>, TRUE)
            /\ UNCHANGED store
  /\ UNCHANGED searchCriteria
  /\ UNCHANGED <<procState, env, smtpHost, boxes, uidNext, name, args, conn,
                 draftsFolder, found, expunged, appended>>

DoomedAll(ms) == ms

DoomedNone(ms) == {}

\* The messages a closing expunge removes from a box.
Doomed(ms) == {m \in ms : "\\Deleted" \in m.flags}

\* connection.closeBox(true) completes.
CloseBox(i) ==
  /\ pc[i] = "closeBox"
  /\ \E ok \in BOOLEAN :
       LET box == sessions[conn[i]].box[1] IN
       IF ok
       THEN /\ store' = [store EXCEPT ![box] = @ \ Doomed(@)]
            /\ expunged' = [expunged EXCEPT ![i] = @ \cup Doomed(store[box])]
            /\ IF name[i] = "delete_email"
               THEN ExitSelected(i, Return(TextResult("Email deleted successfully")),
                                 <<"closeBox">>, <<>>)
               ELSE /\ sessions' = Select(sessions, conn[i], <<>>)
                    /\ Await(i, "reopenBox", <<"closeBox">>)
       ELSE /\ Throw(i, "closeBox failed", <<"closeBox">>, TRUE)
            /\ UNCHANGED <<store, expunged>>
  /\ UNCHANGED searchCriteria
  /\ UNCHANGED <<procState, env, smtpHost, boxes, uidNext, name, args, conn,
                 draftsFolder, found, appended>>

\* connection.append(message, {mailbox: draftsFolder, flags: ['\\Draft']})
\* completes.
Append_(i) ==
  /\ pc[i] = "append"
  /\ \E ok \in BOOLEAN :
       LET box == draftsFolder[i]
           message == Compose(args[i], env.IMAP_USER)
       IN
       IF ok /\ box \in DOMAIN store
       THEN LET m == Msg(uidNext[box], {"\\Draft"}, Dates[Len(Dates)], message) IN
            /\ store' = [store EXCEPT ![box] = @ \cup {m}]
            /\ uidNext' = [uidNext EXCEPT ![box] = @ + 1]
            /\ appended' = [appended EXCEPT ![i] = @ \cup {m}]
            /\ Exit(i, Return(TextResult(IF name[i] = "create_draft"
                                         THEN "Draft created successfully in " \o box
                                         ELSE "Draft updated successfully")),
                    <<"append">>, TRUE)
       ELSE /\ Throw(i, IF box \notin DOMAIN store
                          THEN "Mailbox doesn't exist: " \o box
                          ELSE "append failed",
                     <<"append">>, TRUE)
            /\ UNCHANGED <<store, uidNext, appended>>
  /\ UNCHANGED searchCriteria
  /\ UNCHANGED <<procState, env, smtpHost, boxes, name, args, conn, draftsFolder,
                 found, expunged>>

\* transporter.sendMail(mailOptions) completes.
SendMail(i) ==
  /\ pc[i] = "sendMail"
  /\ \E ok \in BOOLEAN :
       IF ok
       THEN Exit(i, Return(TextResult(Json(
                   [success |-> TRUE, messageId |-> "<id@x>", response |-> "250 OK"]))),
                 <<"sendMail">>, FALSE)
       ELSE Throw(i, "sendMail failed", <<"sendMail">>, FALSE)
  /\ UNCHANGED searchCriteria
  /\ UNCHANGED <<procState, env, smtpHost, boxes, store, uidNext, name, args,
                 conn, draftsFolder, found, expunged, appended>>

Next ==
  \/ Main
  \/ \E i \in Invocations :
       \/ Start(i)
       \/ Connect(i)
       \/ GetBoxes(i)
       \/ OpenBox(i)
       \/ Search(i)
       \/ Decode(i)
       \/ AddFlags(i)
       \/ CloseBox(i)
       \/ Append_(i)
       \/ SendMail(i)

Spec == Init /\ [][Next]_vars

(***************************************************************************)
(* The drafts-folder resolver on its own, over every folder tree           *)
(***************************************************************************)
InitResolver ==
  /\ procState = "running"
  /\ env = [IMAP_USER |-> <<"me@x">>, IMAP_PASSWORD |-> <<"secret">>,
            IMAP_HOST |-> <<"imap.x">>, SMTP_HOST |-> <<>>]
  /\ smtpHost = <<"imap.x">>
  /\ boxes \in AllTrees
  /\ store = InitialStore(boxes)
  /\ uidNext = [f \in Mailboxes(boxes) |-> 1 + Cardinality(StoredUids)]
  /\ sessions = << [owner |-> InvocationOrder[1], box |-> <<>>, ended |-> 0] >>
  /\ pc = [i \in Invocations |-> IF i = InvocationOrder[1] THEN "resolve" ELSE "idle"]
  /\ name = [i \in Invocations |-> IF i = InvocationOrder[1] THEN "get_draft" ELSE ""]
  /\ args = [i \in Invocations |-> NoArgs]
  /\ conn = [i \in Invocations |-> IF i = InvocationOrder[1] THEN 1 ELSE 0]
  /\ draftsFolder = [i \in Invocations |-> ""]
  /\ found = [i \in Invocations |-> <<>>]
  /\ searchCriteria = [i \in Invocations |-> <<>>]
  /\ result = [i \in Invocations |-> NoResult]
  /\ calls = [i \in Invocations |-> IF i = InvocationOrder[1] THEN <<"connect">> ELSE <<>>]
  /\ failure = [i \in Invocations |-> <<>>]
  /\ expunged = [i \in Invocations |-> {}]
  /\ appended = [i \in Invocations |-> {}]

\* findDraftsFolder(connection) returns, getBoxes having succeeded.
ResolveDrafts(i) ==
  /\ pc[i] = "resolve"
  /\ draftsFolder' = [draftsFolder EXCEPT ![i] = FindDraftsFolder(boxes)]
  /\ pc' = [pc EXCEPT ![i] = "resolved"]
  /\ calls' = [calls EXCEPT ![i] = @ \o <<"getBoxes">>]
  /\ UNCHANGED searchCriteria
  /\ UNCHANGED <<procState, env, smtpHost, boxes, store, uidNext, sessions, name,
                 args, conn, found, result, failure, expunged, appended>>

NextResolver == \E i \in Invocations : ResolveDrafts(i)

SpecResolver == InitResolver /\ [][NextResolver]_vars

(***************************************************************************)
(* The composer on its own, over every combination of the optional fields  *)
(***************************************************************************)
\* An optional text field: absent, empty, or the given text.
Field(t) == {<<>>, <<"">>, <<t>>}

ComposerArgs ==
  { [EmptyArgs EXCEPT !.to = to, !.subject = <<"hi">>, !.cc = cc, !.bcc = bcc,
                      !.body = body, !.html = html] :
      to \in {<<>>, <<"bob@x">>}, cc \in Field("c@x"), bcc \in Field("b@x"),
      body \in Field("text"), html \in Field("<p>") }

\* The first invocation is create_draft or update_draft of the draft with
\* UID 1, suspended at its append.
InitComposer ==
  LET r == InvocationOrder[1]
      old == CHOOSE m \in InitialDrafts : m.uid = 1
  IN
  /\ procState = "running"
  /\ env = [IMAP_USER |-> <<"me@x">>, IMAP_PASSWORD |-> <<"secret">>,
            IMAP_HOST |-> <<"imap.x">>, SMTP_HOST |-> <<>>]
  /\ smtpHost = <<"imap.x">>
  /\ boxes = [k \in {"INBOX", "Drafts"} |-> LeafBox]
  /\ uidNext = [f \in Mailboxes(boxes) |-> 1 + Cardinality(StoredUids)]
  /\ pc = [i \in Invocations |-> IF i = r THEN "append" ELSE "idle"]
  /\ name \in {[i \in Invocations |-> IF i = r THEN n ELSE ""] :
                 n \in {"create_draft", "update_draft"}}
  /\ args \in {[i \in Invocations |->
                   IF i # r THEN NoArgs
                   ELSE IF name[r] = "update_draft" THEN [a EXCEPT !.uid = <<1>>]
                   ELSE a] :
                 a \in ComposerArgs}
  /\ \/ /\ name[r] = "create_draft"
        /\ store = InitialStore(boxes)
        /\ sessions = << [owner |-> r, box |-> <<>>, ended |-> 0] >>
        /\ calls = [i \in Invocations |->
                      IF i = r THEN <<"connect", "getBoxes">> ELSE <<>>]
        /\ expunged = [i \in Invocations |-> {}]
     \/ /\ name[r] = "update_draft"
        /\ store = [InitialStore(boxes) EXCEPT !["Drafts"] = @ \ {old}]
        /\ sessions = << [owner |-> r, box |-> <<"Drafts">>, ended |-> 0] >>
        /\ calls = [i \in Invocations |->
                      IF i = r
                      THEN <<"connect", "getBoxes", "openBox", "addFlags",
                             "closeBox", "openBox">>
                      ELSE <<>>]
        /\ expunged = [i \in Invocations |->
                         IF i = r THEN {[old EXCEPT !.flags = @ \cup {"\\Deleted"}]}
                         ELSE {}]
  /\ conn = [i \in Invocations |-> IF i = r THEN 1 ELSE 0]
  /\ draftsFolder = [i \in Invocations |-> IF i = r THEN "Drafts" ELSE ""]
  /\ found = [i \in Invocations |-> <<>>]
  /\ searchCriteria = [i \in Invocations |-> <<>>]
  /\ result = [i \in Invocations |-> NoResult]
  /\ failure = [i \in Invocations |-> <<>>]
  /\ appended = [i \in Invocations |-> {}]

NextComposer == \E i \in Invocations : Append_(i)

SpecComposer == InitComposer /\ [][NextComposer]_vars

(***************************************************************************)
(* Properties                                                              *)
(***************************************************************************)
Terminal == {"returned", "threw"}

InFlight(i) == pc[i] \notin {"idle", "returned", "threw"}

Text(i) == result[i].content[1].text

IsError(i) == "isError" \in DOMAIN result[i] /\ result[i].isError

Count(seq, x) == Cardinality({k \in DOMAIN seq : seq[k] = x})

\* How often the session of invocation i was closed.
Closes(i) == IF conn[i] = 0 THEN 0 ELSE sessions[conn[i]].ended

HasPrefix(t, p) == Len(t) >= Len(p) /\ SubSeq(t, 1, Len(p)) = p

\* C1: the handler never lets an exception escape; every invocation that
\* has ended returned a result with exactly one text block, and every
\* failure (of a collaborator call at any step, or of reading an absent
\* argument bag) is returned with isError = true and the text
\* "Error: <message>".
C1_NoExceptionEscapes ==
  \A i \in Invocations :
    /\ pc[i] # "threw"
    /\ pc[i] = "returned" =>
         /\ DOMAIN result[i] \subseteq {"content", "isError"}
         /\ Len(result[i].content) = 1
         /\ result[i].content[1].type = "text"
         /\ failure[i] # <<>> =>
              IsError(i) /\ Text(i) = "Error: " \o failure[i][1]

C1_Witness ==
  \E i \in Invocations :
    /\ pc[i] = "returned"
    /\ name[i] = "update_draft"
    /\ failure[i] = <<"append failed">>
    /\ IsError(i)

\* C2: every session an invocation opened is closed exactly once by the
\* time the invocation has returned, on every exit path, and is not closed
\* while the invocation still runs.
C2_SessionClosedOnce ==
  \A c \in DOMAIN sessions :
    sessions[c].ended = IF pc[sessions[c].owner] \in Terminal THEN 1 ELSE 0

C2_Witness ==
  \E i \in Invocations :
    /\ pc[i] = "returned"
    /\ name[i] = "update_draft"
    /\ failure[i] = <<"closeBox failed">>
    /\ conn[i] # 0
    /\ sessions[conn[i]].ended = 1

ListOps == {"list_emails", "search_emails", "list_drafts"}

\* The listing the claim expects for limit l: the last min(l, N) messages,
\* newest first.
ExpectedListing(n, messages, l) ==
  LET N == Len(messages)
      take == IF l <= N THEN l ELSE N
  IN [k \in 1..take |-> Summary(n, messages[N + 1 - k])]

\* C3: a listing operation that was asked for limit L and whose search
\* returned N messages in ascending order returns the last min(L, N) of
\* them, newest first.
C3_LastLimitNewestFirst ==
  \A i \in Invocations :
    (pc[i] = "returned" /\ name[i] \in ListOps /\ failure[i] = <<>>
       /\ args[i].limit # <<>>) =>
      LET expected == ExpectedListing(name[i], found[i], args[i].limit[1])
      IN Text(i) = IF name[i] = "list_drafts"
                   THEN Json([folder |-> draftsFolder[i], drafts |-> expected])
                   ELSE Json(expected)

\* A candidate exists in the tree as a top-level key.
IsTopLevelKey(bx, n) == n \in DOMAIN bx

\* A candidate exists in the tree as a dotted path a.b: b is a child of a.
IsDottedPath(bx, n) ==
  LET parts == SplitDot(n)
  IN /\ Len(parts) = 2
     /\ parts[1] \in DOMAIN bx
     /\ bx[parts[1]].children # Null
     /\ parts[2] \in DOMAIN bx[parts[1]].children

ExistsInTree(bx, n) == IsTopLevelKey(bx, n) \/ IsDottedPath(bx, n)

Candidates == Range(draftNames)

\* C4: for every folder tree the resolver returns a name: a candidate that
\* exists in the tree (as a top-level key or as a dotted path) when there is
\* one; otherwise "INBOX.Drafts" when INBOX has a child Drafts; otherwise
\* "Drafts".
C4_ResolverTotal ==
  \A i \in Invocations :
    pc[i] = "resolved" =>
      LET r == draftsFolder[i]
          some == \E n \in Candidates : ExistsInTree(boxes, n)
          nested == /\ "INBOX" \in DOMAIN boxes
                    /\ boxes["INBOX"].children # Null
                    /\ "Drafts" \in DOMAIN boxes["INBOX"].children
      IN /\ some => (r \in Candidates /\ ExistsInTree(boxes, r))
         /\ (~some /\ nested) => r = "INBOX.Drafts"
         /\ (~some /\ ~nested) => r = "Drafts"

C4_Witness ==
  \E i \in Invocations :
    /\ pc[i] = "resolved"
    /\ \A n \in Candidates : ~IsTopLevelKey(boxes, n)
    /\ IsDottedPath(boxes, "INBOX.Drafts")
    /\ draftsFolder[i] = "INBOX.Drafts"

\* C5: a name that is not one of the ten operations is answered at once
\* with the single text "Unknown tool: <name>" and no isError field, no
\* session opened and no collaborator called.
C5_UnknownTool ==
  \A i \in Invocations :
    (pc[i] # "idle" /\ name[i] \notin ToolNames) =>
      /\ pc[i] = "returned"
      /\ result[i].content = << [type |-> "text", text |-> "Unknown tool: " \o name[i]] >>
      /\ "isError" \notin DOMAIN result[i]
      /\ conn[i] = 0
      /\ calls[i] = <<>>

C5_Witness ==
  \E i \in Invocations :
    pc[i] = "returned" /\ name[i] = "bogus" /\ Text(i) = "Unknown tool: bogus"

\* update_draft completes successfully in this step, for a UID that was in
\* the drafts folder when the folder was closed.
UpdateCompletes(i) ==
  /\ name[i] = "update_draft"
  /\ pc[i] = "append"
  /\ pc'[i] = "returned"
  /\ failure'[i] = <<>>
  /\ \E m \in expunged[i] : m.uid = args[i].uid[1]

\* The headers of a stored message are the supplied fields.
HeadersMatch(m, a) ==
  /\ HeaderOf(m.doc, "To: ") = << Interp(a.to) >>
  /\ HeaderOf(m.doc, "Subject: ") = << Interp(a.subject) >>
  /\ HeaderOf(m.doc, "Cc: ") = (IF TruthyStr(a.cc) THEN a.cc ELSE <<>>)
  /\ HeaderOf(m.doc, "Bcc: ") = (IF TruthyStr(a.bcc) THEN a.bcc ELSE <<>>)

\* After the completing step the original UID is gone and the folder holds
\* exactly one new message, with a new UID and the supplied headers.
Replaced(i) ==
  LET box == draftsFolder[i]
      orig == args[i].uid[1]
      new == store'[box] \ store[box]
  IN /\ \A m \in store'[box] : m.uid # orig
     /\ store[box] \subseteq store'[box]
     /\ Cardinality(new) = 1
     /\ appended'[i] = new
     /\ \A m \in new : /\ m.uid # orig
                       /\ \A x \in store[box] : x.uid # m.uid
                       /\ HeadersMatch(m, args[i])

\* C7 as stated: a successful update_draft of an existing UID leaves no
\* message with that UID, exactly one new message (new UID, supplied
\* headers), and removed no draft but the original.
C7_Original ==
  [][\A i \in Invocations :
       UpdateCompletes(i) =>
         (Replaced(i) /\ \A m \in expunged[i] : m.uid = args[i].uid[1])]_vars

\* C7 amended: a successful update_draft of an existing UID leaves no
\* message with that UID and exactly one new message (new UID, supplied
\* headers); every draft it removed carried the \Deleted flag when the
\* folder was closed, so every other draft without that flag is still
\* present.
C7_Amended ==
  [][\A i \in Invocations :
       UpdateCompletes(i) =>
         (Replaced(i) /\ \A m \in expunged[i] : "\\Deleted" \in m.flags)]_vars

C7_Witness ==
  \E i \in Invocations :
    /\ pc[i] = "returned"
    /\ name[i] = "update_draft"
    /\ Text(i) = "Draft updated successfully"
    /\ \E m \in expunged[i] : m.uid = args[i].uid[1]
    /\ \E m \in expunged[i] : m.uid # args[i].uid[1]
    /\ Cardinality(appended[i]) = 1

\* list_emails ended with the failure of a collaborator call.
ListEmailsFailed(i) ==
  /\ pc[i] = "returned"
  /\ name[i] = "list_emails"
  /\ failure[i] # <<>>
  /\ calls[i] # <<>>

\* C8 as stated: every transport failure during list_emails gives
\* isError = true, a text beginning "Error: ", and exactly one close of the
\* session.
C8_Original ==
  \A i \in Invocations :
    ListEmailsFailed(i) =>
      IsError(i) /\ HasPrefix(Text(i), "Error: ") /\ Closes(i) = 1

\* C8 amended: every transport failure during list_emails gives
\* isError = true and a text beginning "Error: "; when the failure comes
\* after connect succeeded the session is closed exactly once, and when
\* connect itself fails there is no session and no close.
C8_Amended ==
  \A i \in Invocations :
    ListEmailsFailed(i) =>
      /\ IsError(i)
      /\ HasPrefix(Text(i), "Error: ")
      /\ (failure[i] = <<"connect failed">>) <=> (conn[i] = 0)
      /\ Closes(i) = IF failure[i] = <<"connect failed">> THEN 0 ELSE 1
      /\ Count(calls[i], "end") = Closes(i)

C8_Witness ==
  \E i \in Invocations :
    /\ ListEmailsFailed(i)
    /\ failure[i] = <<"Mailbox doesn't exist: Missing">>
    /\ Closes(i) = 1

\* C9: when the search of get_email or get_draft returns no message, the
\* result is the plain text "Email not found" or "Draft not found" without
\* isError, the decoder is not called and the session is closed.
C9_NotFound ==
  \A i \in Invocations :
    (pc[i] = "returned" /\ name[i] \in {"get_email", "get_draft"}
       /\ failure[i] = <<>> /\ found[i] = <<>>) =>
      /\ result[i].content =
           << [type |-> "text",
               text |-> IF name[i] = "get_email" THEN "Email not found"
                        ELSE "Draft not found"] >>
      /\ "isError" \notin DOMAIN result[i]
      /\ "decode" \notin Range(calls[i])
      /\ "search" \in Range(calls[i])
      /\ Closes(i) = 1

C9_Witness ==
  \E i \in Invocations :
    /\ pc[i] = "returned"
    /\ name[i] = "get_draft"
    /\ found[i] = <<>>
    /\ Text(i) = "Draft not found"

\* C10 as stated: at most one invocation is in flight at any time.
C10_Original == Cardinality({i \in Invocations : InFlight(i)}) <= 1

\* C10 amended: invocations may be in flight together, but never on the
\* same session: every invocation that connected holds a session of its
\* own, made for it, and no session is held by two invocations.
C10_Amended ==
  \A i \in Invocations :
    conn[i] # 0 =>
      /\ conn[i] \in DOMAIN sessions
      /\ sessions[conn[i]].owner = i
      /\ \A j \in Invocations \ {i} : conn[j] # conn[i]

C10_Witness ==
  \E i \in Invocations :
    \E j \in Invocations \ {i} :
      /\ InFlight(i) /\ InFlight(j)
      /\ conn[i] # 0 /\ conn[j] # 0
      /\ sessions[conn[i]].box # <<>> /\ sessions[conn[j]].box # <<>>

\* The calls an invocation makes on a mailbox session.
SessionOps == {"getBoxes", "openBox", "search", "addFlags", "closeBox", "append", "end"}

\* The calls invocation i makes in the current step.
MadeNow(i) == SubSeq(calls'[i], Len(calls[i]) + 1, Len(calls'[i]))

\* C11: under every interleaving of invocations, every call on a mailbox
\* session is made by the invocation that opened it, on a session that is
\* still open; an invocation opens at most one session; and once its
\* invocation has returned a session is closed and is never touched again.
C11_SessionOwnership ==
  /\ [](\A i \in Invocations :
          /\ Count(calls[i], "connect") <= 1
          /\ Cardinality({c \in DOMAIN sessions : sessions[c].owner = i}) <= 1)
  /\ [](\A c \in DOMAIN sessions :
          pc[sessions[c].owner] \in Terminal => sessions[c].ended > 0)
  /\ [][\A i \in Invocations :
          \A k \in DOMAIN MadeNow(i) :
            MadeNow(i)[k] \in SessionOps =>
              /\ conn[i] \in DOMAIN sessions
              /\ sessions[conn[i]].owner = i
              /\ sessions[conn[i]].ended = 0]_vars
  /\ [][\A c \in DOMAIN sessions :
          pc[sessions[c].owner] \in Terminal => sessions'[c] = sessions[c]]_vars

C11_Witness ==
  \E i \in Invocations :
    \E j \in Invocations \ {i} :
      /\ pc[i] = "returned" /\ conn[i] # 0 /\ sessions[conn[i]].ended = 1
      /\ InFlight(j) /\ conn[j] # 0 /\ conn[j] # conn[i]
      /\ "search" \in Range(calls[i]) /\ "search" \in Range(calls[j])
      /\ sessions[conn[j]].ended = 0

\* Index of the first candidate at or after k that exists in the tree as a
\* top-level key or as a dotted path through children maps, 0 if none.
RECURSIVE FirstExisting(_, _)
FirstExisting(bx, k) ==
  IF k > Len(draftNames) THEN 0
  ELSE IF ExistsInTree(bx, draftNames[k]) THEN k
  ELSE FirstExisting(bx, k + 1)

\* C12: the resolver returns the first candidate, in the order Drafts,
\* INBOX.Drafts, [Gmail]/Drafts, [Google Mail]/Drafts, Draft, INBOX/Drafts,
\* that exists as a top-level key or as a dotted path through nested
\* children maps; a lower-priority candidate is never returned when a
\* higher-priority one exists in either form.
C12_FirstCandidateWins ==
  \A i \in Invocations :
    (pc[i] = "resolved" /\ FirstExisting(boxes, 1) # 0) =>
      draftsFolder[i] = draftNames[FirstExisting(boxes, 1)]

UpdateOrder ==
  << "connect", "getBoxes", "openBox", "addFlags", "closeBox", "openBox", "append" >>

IsPrefix(s, t) == Len(s) <= Len(t) /\ SubSeq(t, 1, Len(s)) = s

\* The calls of an invocation without the closing end().
BeforeEnd(c) == IF c # <<>> /\ c[Len(c)] = "end" THEN SubSeq(c, 1, Len(c) - 1) ELSE c

\* update_draft ended because its append failed.
AppendFailed(i) ==
  /\ name[i] = "update_draft"
  /\ pc[i] = "returned"
  /\ failure[i] = <<"append failed">>

\* C14: update_draft calls the transport in the order resolve drafts folder
\* (getBoxes), open folder, flag the UID \Deleted, close with expunge, reopen
\* folder, append; when the append fails after the expunge the result has
\* isError = true and no message with the original UID is left in the
\* folder; when an earlier step fails no append is issued.
C14_UpdateOrder ==
  \A i \in Invocations :
    name[i] = "update_draft" =>
      /\ IsPrefix(BeforeEnd(calls[i]), UpdateOrder)
      /\ (pc[i] = "returned" /\ failure[i] = <<>>) => BeforeEnd(calls[i]) = UpdateOrder
      /\ AppendFailed(i) =>
           /\ IsError(i)
           /\ BeforeEnd(calls[i]) = UpdateOrder
           /\ \A m \in store[draftsFolder[i]] : m.uid # args[i].uid[1]
           /\ appended[i] = {}
      /\ (failure[i] # <<>> /\ ~AppendFailed(i)) => "append" \notin Range(calls[i])

C14_Witness ==
  \E i \in Invocations :
    /\ AppendFailed(i)
    /\ \E m \in expunged[i] : m.uid = args[i].uid[1]
    /\ IsError(i)
    /\ \A m \in store[draftsFolder[i]] : m.uid # args[i].uid[1]

\* A field is supplied: it is present and not the empty string.
Supplied(o) == o \notin {<<>>, <<"">>}

\* The lines of a document after the blank line that ends its headers.
Content(doc) == SubSeq(doc, HeaderEnd(doc) + 1, Len(doc))

\* The boundary a multipart Content-Type value declares, if it declares one.
BoundaryOf(ct) ==
  LET prefix == "multipart/alternative; boundary=\""
  IN IF HasPrefix(ct, prefix) /\ Len(ct) > Len(prefix)
        /\ SubSeq(ct, Len(ct), Len(ct)) = "\""
     THEN << SubSeq(ct, Len(prefix) + 1, Len(ct) - 1) >>
     ELSE <<>>

\* The document is multipart/alternative with exactly two parts, text/plain
\* holding plain and then text/html holding html, followed by the closing
\* boundary line as its last line.
TwoParts(doc, plain, html) ==
  LET ct == HeaderOf(doc, "Content-Type: ")
      b == BoundaryOf(ct[1])
      body == Content(doc)
      opens == {k \in 1..Len(body) : body[k] = "--" \o b[1]}
      closes == {k \in 1..Len(body) : body[k] = "--" \o b[1] \o "--"}
      first == CHOOSE k \in opens : \A j \in opens : k <= j
      second == CHOOSE k \in opens : \A j \in opens : k >= j
  IN /\ ct # <<>>
     /\ b # <<>>
     /\ Cardinality(opens) = 2
     /\ closes = {Len(body)}
     /\ first = 1
     /\ SubSeq(body, first + 1, second - 1) =
          << "Content-Type: text/plain; charset=utf-8", "", plain >>
     /\ SubSeq(body, second + 1, Len(body) - 1) =
          << "Content-Type: text/html; charset=utf-8", "", html >>

\* The document is a single text/plain part holding plain.
SinglePart(doc, plain) ==
  /\ HeaderOf(doc, "Content-Type: ") = << "text/plain; charset=utf-8" >>
  /\ Content(doc) = << plain >>

\* C15: the document create_draft and update_draft append is, when a
\* non-empty html is supplied, multipart/alternative with exactly two parts,
\* the plain-text part (empty when body is omitted) first and the html part
\* second, followed by the closing boundary line; without html it is a single
\* text/plain part holding the body (empty when omitted); the Cc and Bcc
\* headers are present exactly when the respective field is supplied.
C15_ComposedStructure ==
  \A i \in Invocations :
    \A m \in appended[i] :
      LET a == args[i]
          plain == IF Supplied(a.body) THEN a.body[1] ELSE ""
      IN /\ IF Supplied(a.html) THEN TwoParts(m.doc, plain, a.html[1])
            ELSE SinglePart(m.doc, plain)
         /\ HeaderOf(m.doc, "Cc: ") = (IF Supplied(a.cc) THEN a.cc ELSE <<>>)
         /\ HeaderOf(m.doc, "Bcc: ") = (IF Supplied(a.bcc) THEN a.bcc ELSE <<>>)

C15_Witness ==
  \E i \in Invocations :
    \E m \in appended[i] :
      /\ name[i] = "update_draft"
      /\ Supplied(args[i].html) /\ args[i].body = <<>>
      /\ Supplied(args[i].bcc) /\ ~Supplied(args[i].cc)
      /\ TwoParts(m.doc, "", args[i].html[1])

\* delete_email flags its message in this step.
DeleteFlags(i) ==
  /\ name[i] = "delete_email"
  /\ pc[i] = "addFlags"
  /\ pc'[i] = "closeBox"

\* delete_email completes successfully in this step.
DeleteCompletes(i) ==
  /\ name[i] = "delete_email"
  /\ pc[i] = "closeBox"
  /\ pc'[i] = "returned"
  /\ failure'[i] = <<>>

\* The messages of a set other than the one with the given UID.
Others(ms, uid) == {m \in ms : m.uid # uid}

\* The flagging step changes nothing but the targeted message.
FlagsOnlyTarget(i) ==
  LET box == FolderArg(args[i])
  IN /\ \A f \in DOMAIN store \ {box} : store'[f] = store[f]
     /\ Others(store'[box], args[i].uid[1]) = Others(store[box], args[i].uid[1])

\* C16 as stated: after a successful delete_email(uid, folder) the folder
\* holds no message with that UID, and the removal of that one message is
\* the only change to the mail store.
C16_Original ==
  [][\A i \in Invocations :
       /\ DeleteFlags(i) => FlagsOnlyTarget(i)
       /\ DeleteCompletes(i) =>
            LET box == FolderArg(args[i])
            IN /\ \A m \in store'[box] : m.uid # args[i].uid[1]
               /\ store'[box] = Others(store[box], args[i].uid[1])
               /\ \A f \in DOMAIN store \ {box} : store'[f] = store[f]]_vars

\* C16 amended: after a successful delete_email(uid, folder) the folder
\* holds no message with that UID; the messages removed from the folder are
\* exactly those that carried the \Deleted flag when it was closed; every
\* message of the folder without that flag and every message of every other
\* folder is unchanged.
C16_Amended ==
  [][\A i \in Invocations :
       /\ DeleteFlags(i) => FlagsOnlyTarget(i)
       /\ DeleteCompletes(i) =>
            LET box == FolderArg(args[i])
            IN /\ \A m \in store'[box] : m.uid # args[i].uid[1]
               /\ store'[box] = {m \in store[box] : "\\Deleted" \notin m.flags}
               /\ expunged'[i] = store[box] \ store'[box]
               /\ \A f \in DOMAIN store \ {box} : store'[f] = store[f]]_vars

C16_Witness ==
  \E i \in Invocations :
    /\ pc[i] = "returned"
    /\ name[i] = "delete_email"
    /\ Text(i) = "Email deleted successfully"
    /\ \E m \in expunged[i] : m.uid = args[i].uid[1]
    /\ \E m \in expunged[i] : m.uid # args[i].uid[1]
    /\ \A m \in store[FolderArg(args[i])] : m.uid # args[i].uid[1]

ReadOnlyOps ==
  {"list_folders", "list_emails", "get_email", "search_emails", "list_drafts", "get_draft"}

\* The calls that change the mail store or send mail.
WritingCalls == {"append", "addFlags", "closeBox", "sendMail"}

\* C17: the read-only operations never call append, addFlags, closeBox or the
\* transfer client on any path; no step of a read-only operation changes the
\* mail store; and as long as only read-only operations have been invoked,
\* successfully or not, every folder holds the messages and flags it started
\* with.
C17_ReadOnly ==
  /\ [](\A i \in Invocations :
          name[i] \in ReadOnlyOps => Range(calls[i]) \cap WritingCalls = {})
  /\ [][\A i \in Invocations :
          (name'[i] \in ReadOnlyOps /\ pc'[i] # pc[i]) =>
            (store' = store /\ uidNext' = uidNext)]_vars
  /\ []((\A i \in Invocations : pc[i] # "idle" => name[i] \in ReadOnlyOps) =>
          store = InitialStore(boxes))

C17_Witness ==
  \E i \in Invocations :
    \E j \in Invocations \ {i} :
      /\ pc[i] = "returned" /\ name[i] = "get_email"
      /\ "decode" \in Range(calls[i]) /\ failure[i] = <<>>
      /\ pc[j] = "returned" /\ name[j] = "list_drafts"
      /\ failure[j] = <<"search failed">>
      /\ store = InitialStore(boxes)

\* A request is being handled or has been handled.
Handled(i) == pc[i] # "idle"

\* The configuration the handlers read: the mailbox user, password and host
\* and the relay host are set, the relay host being the mailbox host when
\* none was given.
ConfigComplete ==
  /\ TruthyStr(env.IMAP_USER)
  /\ TruthyStr(env.IMAP_PASSWORD)
  /\ TruthyStr(env.IMAP_HOST)
  /\ TruthyStr(smtpHost)
  /\ smtpHost = IF TruthyStr(env.SMTP_HOST) THEN env.SMTP_HOST ELSE env.IMAP_HOST

\* C18: no request is handled before configuration validation has passed;
\* whenever a request is handled the mailbox user, password and host and the
\* relay host are set (the relay host is the mailbox host when none was
\* given); and no step of a tool invocation changes the configuration.
C18_ConfigValidated ==
  /\ []((\E i \in Invocations : Handled(i)) => procState = "running")
  /\ [](procState = "running" => ConfigComplete)
  /\ [](procState = "init" => \A i \in Invocations : ~Handled(i))
  /\ [][(\E i \in Invocations : pc'[i] # pc[i]) =>
          (env' = env /\ smtpHost' = smtpHost /\ procState' = procState)]_vars

C18_Witness ==
  \E i \in Invocations :
    /\ name[i] = "send_email"
    /\ pc[i] = "returned"
    /\ "sendMail" \in Range(calls[i])
    /\ env.SMTP_HOST = <<>>
    /\ smtpHost = env.IMAP_HOST
    /\ ConfigComplete

====
